---- MODULE Spec2Model ----
(***************************************************************************)
(* State-machine model of the joss-dataset pipeline:                       *)
(*   src/ingest/github_issues.py       (the Collector)                     *)
(*   src/transform/normalize_joss_submissions.py  (the Normalizer)         *)
(* The remote issue list and its HTTP responses are the environment.       *)
(***************************************************************************)
EXTENDS Integers, Sequences, FiniteSets, TLC

VARIABLES
    remote,         \* the remote issue list, newest first (what the API pages over)
    files,          \* the raw item store: file name -> payload
    dirExists,      \* whether out_dir exists on disk
    now,            \* wall clock, seconds
    pc,             \* position of the Collector process
    env,            \* the process environment's GITHUB_TOKEN of the current run
    cfg,            \* Config of the current run
    page,           \* main: page
    total_fetched,  \* main: total_fetched
    total_bot,      \* main: total_bot
    total_written,  \* main: total_written
    requests,       \* log of the session.get calls of the current run
    written,        \* file names written by the current run
    runs,           \* number of Collector runs started
    faults,         \* number of non-200 responses served so far
    changes,        \* number of remote changes so far
    lastChangeRun,  \* value of runs when the remote last changed
    filesAtStart,   \* the store when the current run started
    dirAtStart,     \* dirExists when the current run started
    prevCfg,        \* Config of the previous run
    prevPc,         \* how the previous run ended
    out_file,       \* the Normalizer's output file
    normRuns,       \* number of Normalizer runs
    npc,            \* position of the Normalizer process
    pending,        \* _normalize_dir: the files of issue_files still to process
    nacc,           \* _normalize_dir: submissions, skipped, failed (and the log)
    hist,           \* the completed Normalizer runs: input, old and new output
    dirChanges,     \* number of changes of the input directory between runs
    apc,            \* position of the Aggregator process
    agg_in,         \* the Aggregator's input file
    counts,         \* issues_per_year main: opened_counts, closed_counts
    plots           \* the chart files written

vars == <<remote, files, dirExists, now, pc, env, cfg, page, total_fetched,
          total_bot, total_written, requests, written, runs, faults, changes,
          lastChangeRun, filesAtStart, dirAtStart, prevCfg, prevPc, out_file,
          normRuns, npc, pending, nacc, hist, dirChanges, apc, agg_in, counts, plots>>

collectorVars == <<remote, pc, env, cfg, page, total_fetched, total_bot,
                   total_written, requests, written, runs, faults, changes,
                   lastChangeRun, filesAtStart, dirAtStart, prevCfg, prevPc, now,
                   normRuns>>
normVars == <<npc, pending, nacc, hist, dirChanges>>
aggVars == <<apc, agg_in, counts, plots>>

-----------------------------------------------------------------------------
(* Bounds of the model *)

MaxTotal == 3       \* items on the remote
MaxRuns == 2        \* Collector runs in one behaviour
MaxFaults == 2      \* non-200 responses in one behaviour
MaxChanges == 1     \* remote changes in one behaviour
MaxRev == 1         \* edits of one issue's field values
MaxNormRuns == 1    \* Normalizer runs in one behaviour
MaxEvents == 3      \* runs, faults, changes and Normalizer runs together
MaxPasses == 2      \* Normalizer runs in one behaviour of SpecNorm
MaxDirChanges == 1  \* changes of the input directory in one behaviour of SpecNorm
MaxSubs == 2        \* submissions in the input file of the Aggregator

(* Program constants *)

HTTP_OK == 200
HTTP_FORBIDDEN == 403
SleepMargin == 5
SecondsPerDay == 86400
EpochYear == 1970

Nums == {9, 10, 11}             \* issue numbers on the remote
Min(a, b) == IF a < b THEN a ELSE b
Max(a, b) == IF a > b THEN a ELSE b

-----------------------------------------------------------------------------
(* Values *)

None == [isNone |-> TRUE, val |-> 0]
Some(v) == [isNone |-> FALSE, val |-> v]

\* issue["user"]: a dict with a login, or something else
UserLogin(l) == [isDict |-> TRUE, loginIsStr |-> TRUE, login |-> l]
UserNonStrLogin == [isDict |-> TRUE, loginIsStr |-> FALSE, login |-> ""]
UserNotDict == [isDict |-> FALSE, loginIsStr |-> FALSE, login |-> ""]

Users == {UserLogin("editorialbot"), UserLogin("EditorialBot"), UserLogin("alice"),
          UserNonStrLogin, UserNotDict}

\* issue["body"]: text with or without the marker, or not a string
BodyValid == [isStr |-> TRUE, hasMarker |-> TRUE, parseable |-> TRUE]
BodyNoMarker == [isStr |-> TRUE, hasMarker |-> FALSE, parseable |-> FALSE]

BodyRejected == [isStr |-> TRUE, hasMarker |-> TRUE, parseable |-> FALSE]
BodyNotStr == [isStr |-> FALSE, hasMarker |-> FALSE, parseable |-> FALSE]

\* An issue object as the API returns it. numIsInt tells whether issue["number"]
\* is an int; rev stands for the issue's other field values (title, state, ...).
Issue(n, isInt, u, b) ==
    [number |-> n, numIsInt |-> isInt, user |-> u, body |-> b,
     createdIsStr |-> TRUE, rev |-> 0]

IssuesOf(n) ==
    {Issue(n, TRUE, u, BodyValid) : u \in Users}
        \cup {Issue(n, TRUE, UserLogin("editorialbot"), BodyNoMarker),
              Issue(n, FALSE, UserLogin("editorialbot"), BodyValid)}

BotLogins == {"editorialbot"}               \* --bot
PerPages == {1, 2}                          \* --per-page
Ceilings == {None, Some(0), Some(1)}        \* --max-pages
ResetTimes == {0, 10}                       \* X-RateLimit-Reset

\* GITHUB_TOKEN in the environment: unset, or a string of characters
EnvTokens == {[set |-> FALSE, value |-> <<>>],
              [set |-> TRUE, value |-> <<>>],
              [set |-> TRUE, value |-> <<" ", " ">>],
              [set |-> TRUE, value |-> <<" ", "g", " ">>]}

\* A response: status, X-RateLimit-Remaining, X-RateLimit-Reset, JSON body is a list
Header(s) == [present |-> TRUE, value |-> s]
NoHeader == [present |-> FALSE, value |-> 0]
Response(st, rem, rst, lst) ==
    [status |-> st, remaining |-> rem, reset |-> rst, isList |-> lst]

OkResponse == Response(HTTP_OK, Header(1), NoHeader, TRUE)
FaultResponses ==
    {Response(HTTP_FORBIDDEN, Header(0), Header(r), TRUE) : r \in ResetTimes}
        \cup {Response(HTTP_FORBIDDEN, Header(1), Header(0), TRUE),
              Response(HTTP_FORBIDDEN, Header(0), NoHeader, TRUE),
              Response(500, NoHeader, NoHeader, TRUE),
              Response(HTTP_OK, Header(1), NoHeader, FALSE)}

-----------------------------------------------------------------------------
(* Pure functions of the Collector *)

RECURSIVE LStrip(_)
LStrip(s) == IF s # <<>> /\ Head(s) = " " THEN LStrip(Tail(s)) ELSE s

RECURSIVE RStrip(_)
RStrip(s) ==
    IF s # <<>> /\ s[Len(s)] = " " THEN RStrip(SubSeq(s, 1, Len(s) - 1)) ELSE s

\* str.strip()
Strip(s) == RStrip(LStrip(s))

\* get_token: os.environ.get("GITHUB_TOKEN", EMPTY).strip(); raises when empty
get_token_nostrip(e) ==
    LET token == IF e.set THEN e.value ELSE <<>>
    IN  [ok |-> token # <<>>, token |-> token]

get_token(e) ==
    LET token == Strip(IF e.set THEN e.value ELSE <<>>)
    IN  [ok |-> token # <<>>, token |-> token]

\* sleep_until_reset, line 176: the response is the rate-limit signal
rate_limited(resp) ==
    ~(resp.status # HTTP_FORBIDDEN
        \/ ~(resp.remaining.present /\ resp.remaining.value = 0)
        \/ ~resp.reset.present)

\* the seconds up to the reset time, with no margin
sleep_for_no_margin(resp, now_ts) == Max(0, resp.reset.value - now_ts)

\* sleep_until_reset, lines 179-181: seconds slept
sleep_for(resp, now_ts) == Max(0, resp.reset.value - now_ts) + SleepMargin

\* sleep_until_reset: the clock after the call
sleep_until_reset(resp, now_ts) ==
    IF rate_limited(resp) THEN now_ts + sleep_for(resp, now_ts) ELSE now_ts

\* fetch_issues_page, line 227: the first response leads to a second request
needs_retry(resp) == resp.status = HTTP_FORBIDDEN

fetch_failed_again(resp) ==
    IF resp.status = HTTP_FORBIDDEN THEN "retry" ELSE "api_error"

\* fetch_issues_page, lines 231-243: where a response that is not accepted leads
\* (RuntimeError leaves main)
fetch_failed(resp) == "api_error"

\* fetch_issues_page, lines 231-243: the response is returned as a list of issues
response_accepted(resp) == resp.status = HTTP_OK /\ resp.isList

opened_by_login_any_dict(issue, login) == issue.user.isDict

\* opened_by_login
opened_by_login(issue, login) ==
    IF ~issue.user.isDict THEN FALSE
    ELSE issue.user.loginIsStr /\ issue.user.login = login

\* issue_number
issue_number(issue) == IF issue.numIsInt THEN Some(issue.number) ELSE None

RECURSIVE Digits(_)
Digits(n) == IF n < 10 THEN <<48 + n>> ELSE Digits(n \div 10) \o <<48 + (n % 10)>>

\* f"issue_{number}.json": the characters after "issue_" up to the "." of ".json"
out_path(number) == Digits(number) \o <<46>>

utc_now_iso(t) == t

Put(fs, name, payload) ==
    [p \in DOMAIN fs \cup {name} |-> IF p = name THEN payload ELSE fs[p]]

\* write_issue_file on the disk state d = [files, dir]; returns the new disk state
\* and whether the file was written. json: the file holds a JSON object;
\* issueIsDict: the payload's "issue" is the JSON object the API returned.
write_issue_file_always(issue, d, repo_full_name, overwrite, t) ==
    LET number == issue_number(issue)
        out == out_path(number.val)
    IN  IF number.isNone THEN [written |-> FALSE, path |-> <<>>, files |-> d.files, dir |-> d.dir]
        ELSE [written |-> TRUE, path |-> out,
              files |-> Put(d.files, out,
                            [source |-> "github", repo |-> repo_full_name,
                             fetched_at |-> utc_now_iso(t), json |-> "object",
                             issueIsDict |-> TRUE,
                             issue |-> issue]),
              dir |-> TRUE]

write_issue_file_never_replace(issue, d, repo_full_name, overwrite, t) ==
    LET number == issue_number(issue)
        out == out_path(number.val)
    IN  IF number.isNone THEN [written |-> FALSE, path |-> <<>>, files |-> d.files, dir |-> d.dir]
        ELSE IF out \in DOMAIN d.files
        THEN [written |-> FALSE, path |-> out, files |-> d.files, dir |-> TRUE]
        ELSE [written |-> TRUE, path |-> out,
              files |-> Put(d.files, out,
                            [source |-> "github", repo |-> repo_full_name,
                             fetched_at |-> utc_now_iso(t), json |-> "object",
                             issueIsDict |-> TRUE,
                             issue |-> issue]),
              dir |-> TRUE]

write_issue_file_by_time(issue, d, repo_full_name, overwrite, t) ==
    LET number == issue_number(issue)
        out == Digits(number.val) \o Digits(t) \o <<46>>
    IN  IF number.isNone THEN [written |-> FALSE, path |-> <<>>, files |-> d.files, dir |-> d.dir]
        ELSE IF out \in DOMAIN d.files /\ ~overwrite
        THEN [written |-> FALSE, path |-> out, files |-> d.files, dir |-> TRUE]
        ELSE [written |-> TRUE, path |-> out,
              files |-> Put(d.files, out,
                            [source |-> "github", repo |-> repo_full_name,
                             fetched_at |-> utc_now_iso(t), json |-> "object",
                             issueIsDict |-> TRUE,
                             issue |-> issue]),
              dir |-> TRUE]

write_issue_file(issue, d, repo_full_name, overwrite, t) ==
    LET number == issue_number(issue)
        out == out_path(number.val)
    IN  IF number.isNone THEN [written |-> FALSE, path |-> <<>>, files |-> d.files, dir |-> d.dir]
        ELSE IF out \in DOMAIN d.files /\ ~overwrite
        THEN [written |-> FALSE, path |-> out, files |-> d.files, dir |-> TRUE]
        ELSE [written |-> TRUE, path |-> out,
              files |-> Put(d.files, out,
                            [source |-> "github", repo |-> repo_full_name,
                             fetched_at |-> utc_now_iso(t), json |-> "object",
                             issueIsDict |-> TRUE,
                             issue |-> issue]),
              dir |-> TRUE]

RepoFullName == "openjournals/joss-reviews"

\* main, line 436: the issues of the page opened by the bot, in page order
RECURSIVE BotIssues(_, _)
BotIssues(issues, bot) ==
    IF issues = <<>> THEN <<>>
    ELSE (IF opened_by_login(Head(issues), bot) THEN <<Head(issues)>> ELSE <<>>)
            \o BotIssues(Tail(issues), bot)

\* main, lines 439-448: the write loop over bot_issues; acc is
\* [files, dir, count, names]
RECURSIVE WriteAll(_, _, _, _)
WriteAll(bot_issues, acc, overwrite, t) ==
    IF bot_issues = <<>> THEN acc
    ELSE LET issue == Head(bot_issues)
             w == write_issue_file(issue, [files |-> acc.files, dir |-> acc.dir],
                                   RepoFullName, overwrite, t)
         IN  WriteAll(Tail(bot_issues),
                      [files |-> w.files, dir |-> w.dir,
                       count |-> acc.count + (IF w.written THEN 1 ELSE 0),
                       names |-> acc.names \cup
                                    (IF w.written THEN {w.path} ELSE {})],
                      overwrite, t)

never_short(issues, per_page) == FALSE

\* a full page ends the loop as a short one does
short_or_full_page(issues, per_page) == Len(issues) <= per_page

\* main, line 459: a short page ends the loop
short_page(issues, per_page) == Len(issues) < per_page

\* main, line 462: the page ceiling ends the loop
ceiling_reached(pg, max_pages) == ~max_pages.isNone /\ pg >= max_pages.val

-----------------------------------------------------------------------------
(* The remote API: the page `pg` of the list, per_page items a page *)

PageOf(list, pg, per_page) ==
    SubSeq(list, (pg - 1) * per_page + 1, Min(pg * per_page, Len(list)))

\* The issues the remote may hold at the start: opened by the bot or by someone
\* else; the other shapes of IssuesOf arrive with RemoteInsert
InitIssuesOf(n) ==
    {Issue(n, TRUE, UserLogin(l), BodyValid) : l \in {"editorialbot", "alice"}}

\* The lists the remote may hold at the start: distinct numbers, newest (highest)
\* first
RECURSIVE Desc(_)
Desc(S) ==
    IF S = {} THEN <<>>
    ELSE LET m == CHOOSE x \in S : \A y \in S : y <= x
         IN  <<m>> \o Desc(S \ {m})

AllIssues == UNION {IssuesOf(n) : n \in Nums}

RemoteLists ==
    UNION {LET d == Desc(S)
           IN  {l \in [1..Len(d) -> AllIssues] :
                    \A i \in 1..Len(d) : l[i] \in InitIssuesOf(d[i])}
           : S \in {T \in SUBSET Nums : Cardinality(T) <= MaxTotal}}

-----------------------------------------------------------------------------
(* Pure functions of the Normalizer *)

\* str comparison of two file names
RECURSIVE LexLess(_, _)
LexLess(a, b) ==
    IF b = <<>> THEN FALSE
    ELSE IF a = <<>> THEN TRUE
    ELSE IF Head(a) # Head(b) THEN Head(a) < Head(b)
    ELSE LexLess(Tail(a), Tail(b))

\* the files in descending order of their names
RECURSIVE SortedNamesDescending(_)
SortedNamesDescending(S) ==
    IF S = {} THEN <<>>
    ELSE LET m == CHOOSE x \in S : \A y \in S \ {x} : LexLess(y, x)
         IN  <<m>> \o SortedNamesDescending(S \ {m})

\* sorted(in_dir.glob("issue_*.json"))
RECURSIVE SortedNames(_)
SortedNames(S) ==
    IF S = {} THEN <<>>
    ELSE LET m == CHOOSE x \in S : \A y \in S \ {x} : LexLess(x, y)
         IN  <<m>> \o SortedNames(S \ {m})

\* from_github_issue_payload (src/transform/joss_submission.py): rejects a body
\* it cannot parse, else returns the Submission of the issue
from_github_issue_payload(number, body) ==
    [ok |-> body.parseable, submission |-> [issueNumber |-> number]]

\* _normalize_dir, lines 90-92: the accumulators before the loop. crashed: an
\* exception left the loop; calls: calls of from_github_issue_payload; log: what
\* happened to each file, in processing order
EmptyAcc ==
    [submissions |-> <<>>, skipped |-> 0, failed |-> 0, crashed |-> FALSE,
     calls |-> 0, log |-> <<>>]

Logged(acc, path, outcome) ==
    [acc EXCEPT !.log = Append(@, [name |-> path, outcome |-> outcome])]

normalize_one_marker_failed(path, raw, acc) ==
    LET issue == raw.issue
        parsed == from_github_issue_payload(issue.number, issue.body)
    IN  IF raw.json # "object"
        THEN [Logged(acc, path, "exception") EXCEPT !.crashed = TRUE]
        ELSE IF ~raw.issueIsDict
        THEN [Logged(acc, path, "no_issue") EXCEPT !.skipped = @ + 1]
        ELSE IF ~issue.body.isStr \/ ~issue.body.hasMarker
        THEN [Logged(acc, path, "no_marker") EXCEPT !.failed = @ + 1]
        ELSE IF ~issue.numIsInt \/ ~issue.createdIsStr
        THEN [Logged(acc, path, "no_fields") EXCEPT !.skipped = @ + 1]
        ELSE IF ~parsed.ok
        THEN [Logged(acc, path, "rejected") EXCEPT !.failed = @ + 1, !.calls = @ + 1]
        ELSE [Logged(acc, path, "emitted") EXCEPT
                !.submissions = Append(@, parsed.submission), !.calls = @ + 1]

normalize_one_parse_first(path, raw, acc) ==
    LET issue == raw.issue
        parsed == from_github_issue_payload(issue.number, issue.body)
    IN  IF raw.json # "object"
        THEN [Logged(acc, path, "exception") EXCEPT !.crashed = TRUE]
        ELSE IF ~raw.issueIsDict
        THEN [Logged(acc, path, "no_issue") EXCEPT !.skipped = @ + 1]
        ELSE IF ~issue.body.isStr \/ ~issue.body.hasMarker
        THEN [Logged(acc, path, "no_marker") EXCEPT !.skipped = @ + 1]
        ELSE IF ~parsed.ok
        THEN [Logged(acc, path, "rejected") EXCEPT !.failed = @ + 1, !.calls = @ + 1]
        ELSE IF ~issue.numIsInt \/ ~issue.createdIsStr
        THEN [Logged(acc, path, "no_fields") EXCEPT !.skipped = @ + 1, !.calls = @ + 1]
        ELSE [Logged(acc, path, "emitted") EXCEPT
                !.submissions = Append(@, parsed.submission), !.calls = @ + 1]

\* a rejected item is counted as failed and leaves a record in the output
normalize_one_partial_record(path, raw, acc) ==
    LET issue == raw.issue
        parsed == from_github_issue_payload(issue.number, issue.body)
    IN  IF raw.json # "object"
        THEN [Logged(acc, path, "exception") EXCEPT !.crashed = TRUE]
        ELSE IF ~raw.issueIsDict
        THEN [Logged(acc, path, "no_issue") EXCEPT !.skipped = @ + 1]
        ELSE IF ~issue.body.isStr \/ ~issue.body.hasMarker
        THEN [Logged(acc, path, "no_marker") EXCEPT !.skipped = @ + 1]
        ELSE IF ~issue.numIsInt \/ ~issue.createdIsStr
        THEN [Logged(acc, path, "no_fields") EXCEPT !.skipped = @ + 1]
        ELSE IF ~parsed.ok
        THEN [Logged(acc, path, "rejected") EXCEPT
                !.failed = @ + 1, !.calls = @ + 1,
                !.submissions = Append(@, parsed.submission)]
        ELSE [Logged(acc, path, "emitted") EXCEPT
                !.submissions = Append(@, parsed.submission), !.calls = @ + 1]

\* _normalize_dir, lines 94-130: one file of the loop. json.loads raises on a
\* file that is no JSON (line 28) and raw.get raises on a JSON value that is no
\* object (line 97); neither is caught.
normalize_one(path, raw, acc) ==
    LET issue == raw.issue
        parsed == from_github_issue_payload(issue.number, issue.body)
    IN  IF raw.json # "object"
        THEN [Logged(acc, path, "exception") EXCEPT !.crashed = TRUE]
        ELSE IF ~raw.issueIsDict
        THEN [Logged(acc, path, "no_issue") EXCEPT !.skipped = @ + 1]
        ELSE IF ~issue.body.isStr \/ ~issue.body.hasMarker
        THEN [Logged(acc, path, "no_marker") EXCEPT !.skipped = @ + 1]
        ELSE IF ~issue.numIsInt \/ ~issue.createdIsStr
        THEN [Logged(acc, path, "no_fields") EXCEPT !.skipped = @ + 1]
        ELSE IF ~parsed.ok
        THEN [Logged(acc, path, "rejected") EXCEPT !.failed = @ + 1, !.calls = @ + 1]
        ELSE [Logged(acc, path, "emitted") EXCEPT
                !.submissions = Append(@, parsed.submission), !.calls = @ + 1]

\* _normalize_dir, lines 94-132: the loop over the sorted files; an exception
\* leaves it
RECURSIVE NormalizeFiles(_, _, _)
NormalizeFiles(issue_files, fs, acc) ==
    IF issue_files = <<>> \/ acc.crashed THEN acc
    ELSE NormalizeFiles(Tail(issue_files), fs,
                        normalize_one(Head(issue_files), fs[Head(issue_files)], acc))

\* _normalize_dir
normalize_dir(fs) == NormalizeFiles(SortedNames(DOMAIN fs), fs, EmptyAcc)

write_text_merged(prev, acc) ==
    [exists |-> TRUE, submissions |-> prev.submissions \o acc.submissions,
     skipped |-> acc.skipped, failed |-> acc.failed]

\* main, lines 163-165: the output file after out_file.write_text
write_text(prev, acc) ==
    [exists |-> TRUE, submissions |-> acc.submissions,
     skipped |-> acc.skipped, failed |-> acc.failed]

-----------------------------------------------------------------------------
(* Initial state: nothing collected yet *)

NoFiles == [p \in {} |-> 0]
NoOutput == [exists |-> FALSE, submissions |-> <<>>, skipped |-> 0, failed |-> 0]
NoCounts == [opened |-> NoFiles, closed |-> NoFiles]
NoPlots == [dir |-> FALSE, open |-> FALSE, closed |-> FALSE]

\* the Normalizer process has not started
NormIdle ==
    /\ npc = "idle"
    /\ pending = <<>>
    /\ nacc = EmptyAcc
    /\ hist = <<>>
    /\ dirChanges = 0

\* the Aggregator process has not started
AggIdle ==
    /\ apc = "idle"
    /\ agg_in = [exists |-> FALSE, isList |-> FALSE, items |-> <<>>]
    /\ counts = NoCounts
    /\ plots = NoPlots

Init ==
    /\ remote \in RemoteLists
    /\ files = NoFiles
    /\ dirExists = FALSE
    /\ now = 0
    /\ pc = "idle"
    /\ env = [set |-> FALSE, value |-> <<>>]
    /\ \E pp \in PerPages :
         cfg = [token |-> <<>>, bot |-> "editorialbot", overwrite |-> FALSE,
                max_pages |-> None, per_page |-> pp]
    /\ page = 1
    /\ total_fetched = 0
    /\ total_bot = 0
    /\ total_written = 0
    /\ requests = <<>>
    /\ written = {}
    /\ runs = 0
    /\ faults = 0
    /\ changes = 0
    /\ lastChangeRun = 0
    /\ filesAtStart = NoFiles
    /\ dirAtStart = FALSE
    /\ prevCfg = cfg
    /\ prevPc = "idle"
    /\ out_file = NoOutput
    /\ normRuns = 0
    /\ NormIdle
    /\ AggIdle

-----------------------------------------------------------------------------
(* The Collector *)

\* the events of the behaviour so far that the bounds count
Events == runs + faults + changes + normRuns

Running == pc \in {"request", "retry"}

\* main, lines 400-421: parse_args, build_config (get_token first), counters.
\* Every run of a behaviour uses the --per-page chosen at the start.
StartRun(e, bot, overwrite, max_pages) ==
    /\ ~Running
    /\ runs < MaxRuns
    /\ Events < MaxEvents
    /\ runs' = runs + 1
    /\ now' = now + 1
    /\ env' = e
    /\ prevCfg' = cfg
    /\ prevPc' = pc
    /\ filesAtStart' = files
    /\ dirAtStart' = dirExists
    /\ requests' = <<>>
    /\ written' = {}
    /\ page' = 1
    /\ total_fetched' = 0
    /\ total_bot' = 0
    /\ total_written' = 0
    /\ LET tok == get_token(e)
       IN  IF ~tok.ok
           THEN pc' = "config_error" /\ cfg' = cfg
           ELSE /\ pc' = "request"
                /\ cfg' = [token |-> tok.token, bot |-> bot, overwrite |-> overwrite,
                           max_pages |-> max_pages, per_page |-> cfg.per_page]
    /\ UNCHANGED <<remote, files, dirExists, faults, changes, lastChangeRun,
                   out_file, normRuns>>
    /\ UNCHANGED <<normVars, aggVars>>

\* main, lines 431-466: the loop body on the list fetch_issues_page returned
LoopBody(issues) ==
    IF issues = <<>>
    THEN /\ pc' = "done"
         /\ UNCHANGED <<files, dirExists, page, total_fetched, total_bot,
                        total_written, written>>
    ELSE LET bot_issues == BotIssues(issues, cfg.bot)
             w == WriteAll(bot_issues,
                           [files |-> files, dir |-> dirExists, count |-> 0,
                            names |-> {}],
                           cfg.overwrite, now')
             stop == short_page(issues, cfg.per_page)
                        \/ ceiling_reached(page, cfg.max_pages)
         IN  /\ total_fetched' = total_fetched + Len(issues)
             /\ total_bot' = total_bot + Len(bot_issues)
             /\ total_written' = total_written + w.count
             /\ files' = w.files
             /\ dirExists' = w.dir
             /\ written' = written \cup w.names
             /\ pc' = IF stop THEN "done" ELSE "request"
             /\ page' = IF stop THEN page ELSE page + 1

\* fetch_issues_page, lines 231-245, then the loop body
Deliver(resp) ==
    IF response_accepted(resp)
    THEN LoopBody(PageOf(remote, page, cfg.per_page))
    ELSE /\ pc' = fetch_failed(resp)
         /\ UNCHANGED <<files, dirExists, page, total_fetched, total_bot,
                        total_written, written>>

Responses == {OkResponse} \cup (IF faults < MaxFaults /\ Events < MaxEvents THEN FaultResponses ELSE {})

Served(resp) == faults' = faults + (IF resp = OkResponse THEN 0 ELSE 1)

\* fetch_issues_page, lines 226-228: the first session.get of a page
Request ==
    /\ pc = "request"
    /\ \E resp \in Responses :
         /\ Served(resp)
         /\ requests' = Append(requests,
                               [page |-> page, attempt |-> 1, at |-> now, resp |-> resp])
         /\ IF needs_retry(resp)
            THEN /\ now' = sleep_until_reset(resp, now)
                 /\ pc' = "retry"
                 /\ UNCHANGED <<files, dirExists, page, total_fetched, total_bot,
                                total_written, written>>
            ELSE /\ now' = now
                 /\ Deliver(resp)
    /\ UNCHANGED <<remote, env, cfg, runs, changes, lastChangeRun, filesAtStart,
                   dirAtStart, prevCfg, prevPc, out_file, normRuns>>
    /\ UNCHANGED <<normVars, aggVars>>

\* fetch_issues_page, line 229: the second session.get of the same page
Retry ==
    /\ pc = "retry"
    /\ \E resp \in Responses :
         /\ Served(resp)
         /\ requests' = Append(requests,
                               [page |-> page, attempt |-> 2, at |-> now, resp |-> resp])
         /\ now' = now
         /\ Deliver(resp)
    /\ UNCHANGED <<remote, env, cfg, runs, changes, lastChangeRun, filesAtStart,
                   dirAtStart, prevCfg, prevPc, out_file, normRuns>>
    /\ UNCHANGED <<normVars, aggVars>>

-----------------------------------------------------------------------------
(* The Normalizer *)

\* main of normalize_joss_submissions.py: a missing input directory is fatal,
\* else the output file is replaced by the result of _normalize_dir
Normalize ==
    /\ ~Running
    /\ normRuns < MaxNormRuns
    /\ Events < MaxEvents
    /\ normRuns' = normRuns + 1
    /\ IF ~dirExists
       THEN out_file' = out_file
       ELSE LET r == normalize_dir(files)
            IN  out_file' = IF r.crashed THEN out_file ELSE write_text(out_file, r)
    /\ UNCHANGED <<remote, files, dirExists, now, pc, env, cfg, page, total_fetched,
                   total_bot, total_written, requests, written, runs, faults,
                   changes, lastChangeRun, filesAtStart, dirAtStart, prevCfg, prevPc>>
    /\ UNCHANGED <<normVars, aggVars>>

-----------------------------------------------------------------------------
(* The remote changes *)

RemoteNumbers == {remote[i].number : i \in 1..Len(remote)}

RemoteChanged ==
    /\ changes < MaxChanges
    /\ Events < MaxEvents
    /\ changes' = changes + 1
    /\ lastChangeRun' = runs
    /\ UNCHANGED <<files, dirExists, now, pc, env, cfg, page, total_fetched,
                   total_bot, total_written, requests, written, runs, faults,
                   filesAtStart, dirAtStart, prevCfg, prevPc, out_file, normRuns>>
    /\ UNCHANGED <<normVars, aggVars>>

\* a new issue is opened: it becomes the first item of the list
RemoteInsert ==
    /\ Len(remote) < MaxTotal
    /\ \E n \in Nums : \E issue \in IssuesOf(n) :
         /\ \A m \in RemoteNumbers : m < n
         /\ remote' = <<issue>> \o remote
    /\ RemoteChanged

\* the field values of an issue change
RemoteEdit ==
    /\ \E i \in 1..Len(remote) :
         /\ remote[i].rev < MaxRev
         /\ remote' = [remote EXCEPT ![i].rev = @ + 1]
    /\ RemoteChanged

-----------------------------------------------------------------------------

Next ==
    \/ \E e \in EnvTokens, bot \in BotLogins, overwrite \in BOOLEAN,
          max_pages \in Ceilings : StartRun(e, bot, overwrite, max_pages)
    \/ Request
    \/ Retry
    \/ Normalize
    \/ RemoteInsert
    \/ RemoteEdit

Spec == Init /\ [][Next]_vars

-----------------------------------------------------------------------------
(* The Normalizer, one file of the loop at a time *)

\* the Collector process has not started
CollectorIdle ==
    /\ remote = <<>>
    /\ now = 0
    /\ pc = "idle"
    /\ env = [set |-> FALSE, value |-> <<>>]
    /\ cfg = [token |-> <<>>, bot |-> "editorialbot", overwrite |-> FALSE,
              max_pages |-> None, per_page |-> 1]
    /\ page = 1
    /\ total_fetched = 0
    /\ total_bot = 0
    /\ total_written = 0
    /\ requests = <<>>
    /\ written = {}
    /\ runs = 0
    /\ faults = 0
    /\ changes = 0
    /\ lastChangeRun = 0
    /\ filesAtStart = NoFiles
    /\ dirAtStart = FALSE
    /\ prevCfg = cfg
    /\ prevPc = "idle"
    /\ normRuns = 0

\* a file issue_<n>.json as the Collector writes it, holding the given issue
RawFile(issue) ==
    [source |-> "github", repo |-> RepoFullName, fetched_at |-> utc_now_iso(0),
     json |-> "object", issueIsDict |-> TRUE, issue |-> issue]

\* the contents a file issue_<n>.json of the input directory can have: a
\* Submission, a body without the marker (with and without an integer number),
\* a body the parser rejects, a marked body with a number that is no int or a
\* created_at that is no str, a body that is no str, an "issue" that is no
\* object, a document that is no object, and text that is no JSON
RawShapes(n) ==
    {RawFile(Issue(n, TRUE, UserLogin("editorialbot"), BodyValid)),
     RawFile(Issue(n, TRUE, UserLogin("editorialbot"), BodyNoMarker)),
     RawFile(Issue(n, FALSE, UserLogin("editorialbot"), BodyNoMarker)),
     RawFile(Issue(n, TRUE, UserLogin("editorialbot"), BodyRejected)),
     RawFile(Issue(n, FALSE, UserLogin("editorialbot"), BodyRejected)),
     RawFile([Issue(n, TRUE, UserLogin("editorialbot"), BodyRejected)
                EXCEPT !.createdIsStr = FALSE]),
     RawFile(Issue(n, TRUE, UserLogin("editorialbot"), BodyNotStr)),
     [RawFile(Issue(n, TRUE, UserLogin("editorialbot"), BodyValid))
        EXCEPT !.issueIsDict = FALSE],
     [RawFile(Issue(n, TRUE, UserLogin("editorialbot"), BodyValid))
        EXCEPT !.json = "array"],
     [RawFile(Issue(n, TRUE, UserLogin("editorialbot"), BodyValid))
        EXCEPT !.json = "invalid"]}

\* issue_<n>.json with content f[n], for the n of the domain of f
DirOf(f) == [p \in {out_path(n) : n \in DOMAIN f} |->
               f[CHOOSE n \in DOMAIN f : out_path(n) = p]]

\* the input directories: any subset of the file names, each with any content
RawDirs ==
    UNION {{DirOf(f) : f \in {g \in [S -> UNION {RawShapes(n) : n \in S}] :
                                \A n \in S : g[n] \in RawShapes(n)}}
           : S \in SUBSET Nums}

\* an output file left by an earlier run over another input
StaleOutput ==
    [exists |-> TRUE, submissions |-> <<[issueNumber |-> 0]>>,
     skipped |-> 1, failed |-> 1]

InitNorm ==
    /\ CollectorIdle
    /\ dirExists \in BOOLEAN
    /\ IF dirExists THEN files \in RawDirs ELSE files = NoFiles
    /\ out_file \in {NoOutput, StaleOutput}
    /\ NormIdle
    /\ AggIdle

\* one completed run, as the ghost variable hist records it
Pass(outcome, a, after) ==
    [input |-> files, dir |-> dirExists, before |-> out_file, after |-> after,
     outcome |-> outcome, acc |-> a]

\* main, lines 135-156, and _normalize_dir up to the loop (lines 79-92)
NormStart ==
    /\ npc # "loop"
    /\ Len(hist) < MaxPasses
    /\ IF ~dirExists
       THEN /\ npc' = "failed"
            /\ pending' = <<>>
            /\ nacc' = EmptyAcc
            /\ hist' = Append(hist, Pass("error", EmptyAcc, out_file))
       ELSE /\ npc' = "loop"
            /\ pending' = SortedNames(DOMAIN files)
            /\ nacc' = EmptyAcc
            /\ hist' = hist
    /\ UNCHANGED <<collectorVars, files, dirExists, out_file, dirChanges, aggVars>>

\* one iteration of the loop of _normalize_dir (lines 94-130); an exception of
\* _load_json or of raw.get leaves main
NormStep ==
    /\ npc = "loop"
    /\ pending # <<>>
    /\ LET a == normalize_one(Head(pending), files[Head(pending)], nacc)
       IN  /\ nacc' = a
           /\ IF a.crashed
              THEN /\ npc' = "failed"
                   /\ pending' = <<>>
                   /\ hist' = Append(hist, Pass("error", a, out_file))
              ELSE /\ npc' = "loop"
                   /\ pending' = Tail(pending)
                   /\ hist' = hist
    /\ UNCHANGED <<collectorVars, files, dirExists, out_file, dirChanges, aggVars>>

\* the loop is over: main writes the output file (lines 158-173)
NormFinish ==
    /\ npc = "loop"
    /\ pending = <<>>
    /\ npc' = "done"
    /\ out_file' = write_text(out_file, nacc)
    /\ hist' = Append(hist, Pass("ok", nacc, out_file'))
    /\ UNCHANGED <<collectorVars, files, dirExists, pending, nacc, dirChanges, aggVars>>

\* between two runs a file of the input directory is written anew
DirChange ==
    /\ npc # "loop"
    /\ dirExists
    /\ dirChanges < MaxDirChanges
    /\ dirChanges' = dirChanges + 1
    /\ \E n \in Nums : \E b \in {BodyValid, BodyNoMarker} :
         /\ files' = Put(files, out_path(n),
                         RawFile(Issue(n, TRUE, UserLogin("editorialbot"), b)))
         /\ files' # files
    /\ UNCHANGED <<collectorVars, dirExists, out_file, npc, pending, nacc, hist, aggVars>>

NextNorm ==
    \/ NormStart
    \/ NormStep
    \/ NormFinish
    \/ DirChange

SpecNorm == InitNorm /\ [][NextNorm]_vars

-----------------------------------------------------------------------------
(* The Aggregator (issues_per_year.py) *)

IsLeap(y) == (y % 4 = 0 /\ y % 100 # 0) \/ y % 400 = 0

\* the year of the day `days` days after January 1 of year y
RECURSIVE YearOfDay(_, _)
YearOfDay(days, y) ==
    LET n == IF IsLeap(y) THEN 366 ELSE 365
    IN  IF days < n THEN y ELSE YearOfDay(days - n, y + 1)

\* _unix_to_year: the UTC year of a time in seconds since 1970-01-01T00:00:00Z
unix_to_year(ts) == YearOfDay(ts \div SecondsPerDay, EpochYear)

\* a field of a submission: an int or something else (absent, null, a string)
IntField(v) == [isInt |-> TRUE, val |-> v]
NoIntField == [isInt |-> FALSE, val |-> 0]

\* 2021-12-31T23:59:59Z, 2022-01-01T00:00:00Z, 2023-11-14T22:13:20Z
OpenedFields == {NoIntField, IntField(1640995199), IntField(1640995200)}
ClosedFields == {NoIntField, IntField(0), IntField(1640995199), IntField(1700000000)}

\* the submissions of an input file
Submissions == [Opened : OpenedFields, Closed : ClosedFields]

\* the input files: absent, no list, or a list of up to MaxSubs submissions
AggInputs ==
    {[exists |-> FALSE, isList |-> FALSE, items |-> <<>>],
     [exists |-> TRUE, isList |-> FALSE, items |-> <<>>]}
    \cup {[exists |-> TRUE, isList |-> TRUE, items |-> l] :
            l \in UNION {[1..n -> Submissions] : n \in 0..MaxSubs}}

\* counts[year] += 1
Incr(counter, year) ==
    [y \in DOMAIN counter \cup {year} |->
        IF y \in DOMAIN counter
        THEN counter[y] + (IF y = year THEN 1 ELSE 0)
        ELSE 1]

\* _count_years
RECURSIVE count_years(_, _, _)
count_years(submissions, key, skip_zero) ==
    IF submissions = <<>> THEN NoFiles
    ELSE LET rest == count_years(Tail(submissions), key, skip_zero)
             ts == IF key = "Opened" THEN Head(submissions).Opened
                   ELSE Head(submissions).Closed
         IN  IF ~ts.isInt THEN rest
             ELSE IF skip_zero /\ ts.val = 0 THEN rest
             ELSE Incr(rest, unix_to_year(ts.val))

\* _plot_counts: RuntimeError when there is nothing to plot, else the chart file
\* is saved
plot_counts(counter) == [ok |-> DOMAIN counter # {}]

InitAgg ==
    /\ CollectorIdle
    /\ files = NoFiles
    /\ dirExists = FALSE
    /\ out_file = NoOutput
    /\ NormIdle
    /\ apc = "idle"
    /\ agg_in \in AggInputs
    /\ counts = NoCounts
    /\ plots = NoPlots

\* main, lines 172-207: the output directory is made, the input file is read and
\* the years are counted; a missing file and a document that is no list raise
\* RuntimeError
AggLoad ==
    /\ apc = "idle"
    /\ plots' = [plots EXCEPT !.dir = TRUE]
    /\ IF ~agg_in.exists \/ ~agg_in.isList
       THEN /\ apc' = "error"
            /\ counts' = counts
       ELSE /\ apc' = "counted"
            /\ counts' = [opened |-> count_years(agg_in.items, "Opened", FALSE),
                          closed |-> count_years(agg_in.items, "Closed", TRUE)]
    /\ UNCHANGED <<collectorVars, files, dirExists, out_file, normVars, agg_in>>

\* main, lines 209-224: the year ranges are logged; min() of no year raises
\* ValueError
AggReport ==
    /\ apc = "counted"
    /\ apc' = IF DOMAIN counts.opened = {} THEN "error" ELSE "reported"
    /\ UNCHANGED <<collectorVars, files, dirExists, out_file, normVars, agg_in,
                   counts, plots>>

\* main, lines 226-236: the chart of the opened issues
AggPlotOpened ==
    /\ apc = "reported"
    /\ IF plot_counts(counts.opened).ok
       THEN /\ plots' = [plots EXCEPT !.open = TRUE]
            /\ apc' = "opened_plotted"
       ELSE /\ plots' = plots
            /\ apc' = "error"
    /\ UNCHANGED <<collectorVars, files, dirExists, out_file, normVars, agg_in,
                   counts>>

\* main, lines 238-250: the chart of the closed issues, left out when there is
\* no closed issue; main returns 0
AggPlotClosed ==
    /\ apc = "opened_plotted"
    /\ IF DOMAIN counts.closed # {}
       THEN IF plot_counts(counts.closed).ok
            THEN /\ plots' = [plots EXCEPT !.closed = TRUE]
                 /\ apc' = "done"
            ELSE /\ plots' = plots
                 /\ apc' = "error"
       ELSE /\ plots' = plots
            /\ apc' = "done"
    /\ UNCHANGED <<collectorVars, files, dirExists, out_file, normVars, agg_in,
                   counts>>

NextAgg ==
    \/ AggLoad
    \/ AggReport
    \/ AggPlotOpened
    \/ AggPlotClosed

SpecAgg == InitAgg /\ [][NextAgg]_vars

-----------------------------------------------------------------------------
(* Properties *)

\* the pages the current run has requested
ReqPages == {requests[i].page : i \in 1..Len(requests)}

\* the remote has not changed since the current run started
StableInRun == lastChangeRun < runs

\* the remote has not changed since the previous run started
StableSincePrevRun == lastChangeRun < runs - 1

\* the issue's author object has a login string equal to `login`
AuthoredBy(issue, login) == issue.user = UserLogin(login)

\* forbidden status, zero remaining quota and a reset timestamp
IsRateLimitSignal(resp) ==
    /\ resp.status = 403
    /\ resp.remaining = Header(0)
    /\ resp.reset.present

\* the credential is missing, empty or only whitespace
BlankCredential(e) == ~e.set \/ \A i \in 1..Len(e.value) : e.value[i] = " "

\* the items the current run has fetched, when the remote was stable
FetchedIndices == 1..Min(total_fetched, Len(remote))

\* C1: a second completed run with the same configuration and overwrite=false,
\* the remote unchanged since the first run started, writes zero files and leaves
\* the set of files and every file's content as the first run left them.
C1_Idempotent ==
    (/\ pc = "done"
     /\ prevPc = "done"
     /\ runs >= 2
     /\ cfg = prevCfg
     /\ ~cfg.overwrite
     /\ StableSincePrevRun)
        => (total_written = 0 /\ written = {} /\ files = filesAtStart)

C1_Witness ==
    /\ pc = "done"
    /\ prevPc = "done"
    /\ runs >= 2
    /\ cfg = prevCfg
    /\ ~cfg.overwrite
    /\ StableSincePrevRun
    /\ total_bot >= 2
    /\ Cardinality(DOMAIN files) >= 2
    /\ total_written = 0

\* C2: a step changes or removes an existing raw item file only in a run with
\* overwrite=true; in runs with overwrite=false every existing file keeps its
\* content, whatever the remote does.
C2_Immutable ==
    [][(\E p \in DOMAIN files : p \notin DOMAIN files' \/ files'[p] # files[p])
          => (Running /\ cfg.overwrite)]_vars

\* a run without overwrite fetched an issue whose stored copy differs from the
\* remote's current values, and left the copy alone
C2_Witness ==
    /\ pc = "done"
    /\ ~cfg.overwrite
    /\ StableInRun
    /\ \E i \in FetchedIndices :
         /\ AuthoredBy(remote[i], cfg.bot)
         /\ remote[i].numIsInt
         /\ out_path(remote[i].number) \in DOMAIN files
         /\ files[out_path(remote[i].number)].issue # remote[i]
         /\ files[out_path(remote[i].number)].issue.number = remote[i].number

\* C3: every file the current run has written holds an issue authored by the
\* configured bot login, and no file of the store holds an issue whose author is
\* no login string of a configured bot.
C3_FilterCorrect ==
    /\ \A p \in written : p \in DOMAIN files /\ AuthoredBy(files[p].issue, cfg.bot)
    /\ \A p \in DOMAIN files : \E l \in BotLogins : AuthoredBy(files[p].issue, l)

\* a completed run fetched an issue whose login differs from the bot's only in
\* case, together with issues it wrote
C3_Witness ==
    /\ pc = "done"
    /\ StableInRun
    /\ written # {}
    /\ \E i \in FetchedIndices : remote[i].user = UserLogin("EditorialBot")

\* C4: no two raw item files hold the same issue number, and no two Submissions
\* of the Normalizer's output have the same issue number.
C4_Unique ==
    /\ \A p, q \in DOMAIN files :
         files[p].issue.number = files[q].issue.number => p = q
    /\ \A i, j \in 1..Len(out_file.submissions) :
         out_file.submissions[i].issueNumber = out_file.submissions[j].issueNumber
            => i = j

\* one run wrote the same file twice (the issue came back on a later page), and
\* the Normalizer then emitted two Submissions
C4_Witness ==
    /\ pc = "done"
    /\ total_written > Cardinality(written)
    /\ out_file.exists
    /\ Len(out_file.submissions) >= 2

\* C5: with no ceiling and no transport error, against an unchanged list of
\* Len(remote) items, the run requests pages 1, 2, 3, ... in order, requests no
\* page after a short page, and once done has requested ceil(total/pageSize)
\* pages when total is no multiple of pageSize.
C5_Pagination ==
    (cfg.max_pages.isNone /\ StableInRun /\ pc \in {"request", "retry", "done"})
        => /\ requests # <<>> => requests[1].page = 1
           /\ \A i \in 1..(Len(requests) - 1) :
                requests[i + 1].page \in {requests[i].page, requests[i].page + 1}
           /\ \A i \in 1..Len(requests) : \A q \in 1..(requests[i].page - 1) :
                Len(PageOf(remote, q, cfg.per_page)) = cfg.per_page
           /\ (pc = "done" /\ Len(remote) % cfg.per_page # 0)
                => /\ Cardinality(ReqPages)
                        = (Len(remote) + cfg.per_page - 1) \div cfg.per_page
                   /\ ReqPages = 1..Cardinality(ReqPages)

C5_Witness ==
    /\ pc = "done"
    /\ cfg.max_pages.isNone
    /\ StableInRun
    /\ Len(remote) = 3
    /\ cfg.per_page = 2
    /\ ReqPages = {1, 2}

\* C6: with a page ceiling maxPages, a run requests no more than maxPages
\* distinct pages.
C6_Ceiling ==
    (pc = "done" /\ ~cfg.max_pages.isNone)
        => Cardinality(ReqPages) <= cfg.max_pages.val

\* C7: a first request answered with the rate-limit signal is followed, after a
\* wait, by exactly one more request for the same page; a second rate-limit
\* answer ends the run in failure on that page, with no third request.
C7_OneRetry ==
    \A i \in 1..Len(requests) :
        LET r == requests[i]
        IN  /\ (r.attempt = 1 /\ IsRateLimitSignal(r.resp))
                => IF i = Len(requests)
                   THEN pc = "retry" /\ page = r.page /\ now > r.at
                   ELSE /\ requests[i + 1].page = r.page
                        /\ requests[i + 1].attempt = 2
                        /\ requests[i + 1].at > r.at
            /\ (r.attempt = 2 /\ IsRateLimitSignal(r.resp))
                => i = Len(requests) /\ pc = "api_error" /\ page = r.page
            /\ Cardinality({j \in 1..Len(requests) : requests[j].page = r.page}) <= 2

C7_Witness ==
    /\ pc = "api_error"
    /\ Len(requests) = 2
    /\ IsRateLimitSignal(requests[1].resp)
    /\ IsRateLimitSignal(requests[2].resp)
    /\ requests[1].page = requests[2].page

\* C8: a response that is not 2xx and not the rate-limit signal ends the run at
\* once: it is the last request of the run.
C8_NoOtherRetry ==
    \A i \in 1..Len(requests) :
        LET r == requests[i]
        IN  (r.resp.status \notin 200..299 /\ ~IsRateLimitSignal(r.resp))
                => i = Len(requests) /\ pc = "api_error"

\* C9: a run started with a missing, empty or whitespace credential ends in the
\* configuration error having sent no request and created no file or directory.
C9_CredentialFirst ==
    (runs > 0 /\ BlankCredential(env))
        => /\ pc = "config_error"
           /\ requests = <<>>
           /\ files = filesAtStart
           /\ dirExists = dirAtStart

C9_Witness ==
    /\ pc = "config_error"
    /\ env.set
    /\ env.value # <<>>
    /\ ~dirExists
    /\ remote # <<>>

\* C10 as stated: after a completed run with overwrite=true every raw item of
\* the store holds the remote's current values of its issue.
C10_AllReconciled ==
    (pc = "done" /\ cfg.overwrite /\ StableInRun)
        => \A p \in DOMAIN files :
             \E i \in 1..Len(remote) : remote[i] = files[p].issue

\* C10 amended: after a completed run with overwrite=true during which the
\* remote did not change, every issue on a page the run fetched that is authored
\* by the configured bot and has an integer number is stored with the remote's
\* current values.
C10_FetchedReconciled ==
    (pc = "done" /\ cfg.overwrite /\ StableInRun)
        => \A i \in FetchedIndices :
             (AuthoredBy(remote[i], cfg.bot) /\ remote[i].numIsInt)
                => /\ out_path(remote[i].number) \in DOMAIN files
                   /\ files[out_path(remote[i].number)].issue = remote[i]

\* the run replaced a copy an earlier run had stored with other values
C10_Witness ==
    /\ pc = "done"
    /\ cfg.overwrite
    /\ StableInRun
    /\ \E p \in DOMAIN filesAtStart :
         /\ files[p].issue.rev # filesAtStart[p].issue.rev
         /\ \E i \in FetchedIndices : remote[i] = files[p].issue

-----------------------------------------------------------------------------
(* Properties of the Normalizer (SpecNorm) *)

\* the file the loop of _normalize_dir is about to process
CurrentRaw == files[Head(pending)]

\* the Normalizer is at a file that decodes to an object with an "issue" object
AtIssue ==
    /\ npc = "loop"
    /\ pending # <<>>
    /\ CurrentRaw.json = "object"
    /\ CurrentRaw.issueIsDict

\* the item is left out and the loop goes on with the next file
Passed ==
    /\ nacc'.submissions = nacc.submissions
    /\ npc' = "loop"
    /\ pending' = Tail(pending)

\* C11: an item whose body lacks the marker adds 1 to skipped and 0 to failed;
\* an item with the marker, an integer number and a string created_at whose
\* body the parser rejects adds 1 to failed and 0 to skipped; in both cases no
\* record is emitted and the loop goes on with the next file of the sorted order.
C11_GateRobust ==
    [][/\ (AtIssue /\ ~CurrentRaw.issue.body.hasMarker)
          => /\ nacc'.skipped = nacc.skipped + 1
             /\ nacc'.failed = nacc.failed
             /\ Passed
       /\ (/\ AtIssue
           /\ CurrentRaw.issue.body.hasMarker
           /\ CurrentRaw.issue.numIsInt
           /\ CurrentRaw.issue.createdIsStr
           /\ ~CurrentRaw.issue.body.parseable)
          => /\ nacc'.failed = nacc.failed + 1
             /\ nacc'.skipped = nacc.skipped
             /\ Passed]_vars

\* a run that met an item without the marker, then a rejected one, then a
\* Submission
C11_Witness ==
    /\ npc = "done"
    /\ Len(nacc.log) = 3
    /\ nacc.log[1].outcome = "no_marker"
    /\ nacc.log[2].outcome = "rejected"
    /\ nacc.log[3].outcome = "emitted"
    /\ nacc.skipped = 1
    /\ nacc.failed = 1
    /\ Len(nacc.submissions) = 1

\* C12: with an existing input directory no file aborts a Normalizer run: the
\* run completes, counts every file (one that is no valid JSON or no object
\* included) as emitted, skipped or failed, and writes the output.
C12_NoItemAborts ==
    \A i \in DOMAIN hist :
        hist[i].dir
            => /\ hist[i].outcome = "ok"
               /\ hist[i].after.exists
               /\ Len(hist[i].acc.submissions) + hist[i].acc.skipped
                    + hist[i].acc.failed = Cardinality(DOMAIN hist[i].input)

-----------------------------------------------------------------------------
(* Properties of the Normalizer's output for a store the Collector wrote (Spec) *)

\* the issue numbers of the output file, in their order
OutNumbers == [i \in DOMAIN out_file.submissions |->
                 out_file.submissions[i].issueNumber]

\* C13: for a store written by the Collector the emitted Submissions are sorted
\* by ascending issue number: of two Submissions the one with the smaller number
\* comes first.
C13_NumericOrder ==
    \A i, j \in DOMAIN OutNumbers :
        i < j => OutNumbers[i] < OutNumbers[j]

\* C13 amended: the emitted Submissions are in ascending order of the file name
\* issue_<number>.json compared as a string; this is the ascending order of the
\* numbers for Submissions whose numbers have the same count of digits.
C13_FileNameOrder ==
    \A i, j \in DOMAIN OutNumbers :
        i < j => /\ LexLess(out_path(OutNumbers[i]), out_path(OutNumbers[j]))
                 /\ Len(Digits(OutNumbers[i])) = Len(Digits(OutNumbers[j]))
                      => OutNumbers[i] < OutNumbers[j]

\* an output with issue 10 before issue 11 before issue 9
C13_Witness ==
    /\ out_file.exists
    /\ Len(OutNumbers) = 3
    /\ OutNumbers[1] < OutNumbers[2]
    /\ OutNumbers[3] < OutNumbers[1]

-----------------------------------------------------------------------------
(* Properties of repeated Normalizer runs (SpecNorm) *)

\* C14: two Normalizer runs over the same input directory end the same way with
\* the same Submissions in the same order and the same skipped and failed
\* counts, whatever the output file held before each of them.
C14_Deterministic ==
    \A i, j \in DOMAIN hist :
        (hist[i].dir = hist[j].dir /\ hist[i].input = hist[j].input)
            => /\ hist[i].outcome = hist[j].outcome
               /\ hist[i].acc = hist[j].acc
               /\ hist[i].after.submissions = hist[j].after.submissions
               /\ hist[i].after.skipped = hist[j].after.skipped
               /\ hist[i].after.failed = hist[j].after.failed

\* two completed runs over the same files, the first over the output of an
\* earlier run on another input, the second over the output of the first
C14_Witness ==
    /\ Len(hist) = 2
    /\ hist[1].outcome = "ok"
    /\ hist[2].outcome = "ok"
    /\ hist[1].input = hist[2].input
    /\ hist[1].before = StaleOutput
    /\ hist[2].before = hist[1].after
    /\ hist[1].after # StaleOutput
    /\ Len(hist[2].after.submissions) = 2
    /\ hist[2].after.skipped = 1

-----------------------------------------------------------------------------
(* Properties of the gates of the Normalizer (SpecNorm) *)

\* what the step just taken did with its file
LastOutcome == nacc'.log[Len(nacc'.log)].outcome

\* the marked body of the current file comes with a number that is no int or a
\* created_at that is no str
AtBadFields ==
    /\ AtIssue
    /\ CurrentRaw.issue.body.hasMarker
    /\ (~CurrentRaw.issue.numIsInt \/ ~CurrentRaw.issue.createdIsStr)

\* C19: an item whose body has the marker but whose number is no integer or
\* whose created_at is no string adds 1 to skipped and 0 to failed and the body
\* parser is not called for it; the gates apply in the order nested issue
\* object, body marker, number and created_at.
C19_ThirdGate ==
    [][/\ AtBadFields
          => /\ nacc'.skipped = nacc.skipped + 1
             /\ nacc'.failed = nacc.failed
             /\ nacc'.calls = nacc.calls
             /\ LastOutcome = "no_fields"
             /\ Passed
       /\ (npc = "loop" /\ pending # <<>> /\ CurrentRaw.json = "object"
             /\ ~CurrentRaw.issueIsDict)
          => LastOutcome = "no_issue"
       /\ (AtIssue /\ ~CurrentRaw.issue.body.hasMarker)
          => LastOutcome = "no_marker"]_vars

\* a run over a marked item with a number that is no int, a marked item with a
\* created_at that is no str, and a Submission: the parser was called once
C19_Witness ==
    /\ npc = "done"
    /\ Len(nacc.log) = 3
    /\ \E p, q \in DOMAIN files :
         /\ files[p].issue.body.hasMarker /\ ~files[p].issue.numIsInt
         /\ files[q].issue.body.hasMarker /\ ~files[q].issue.createdIsStr
    /\ nacc.skipped = 2
    /\ nacc.failed = 0
    /\ nacc.calls = 1
    /\ Len(nacc.submissions) = 1

-----------------------------------------------------------------------------
(* Properties of the Collector's loop (Spec) *)

\* the step is a request whose response fetch_issues_page returns as a list
FetchedPage ==
    /\ Len(requests') = Len(requests) + 1
    /\ response_accepted(requests'[Len(requests')].resp)

\* the items of the page the run is at
PageItems == PageOf(remote, page, cfg.per_page)

\* no item of the list is authored by the configured bot
NoneByBot(issues) ==
    \A i \in 1..Len(issues) : ~AuthoredBy(issues[i], cfg.bot)

\* C17: when a fetched page holds exactly pageSize items, none of them authored
\* by the bot, and the page ceiling is not reached, the Collector writes nothing
\* for the page and goes on to request the next page.
C17_NoMatchGoesOn ==
    [][(/\ FetchedPage
        /\ Len(PageItems) = cfg.per_page
        /\ NoneByBot(PageItems)
        /\ ~ceiling_reached(page, cfg.max_pages))
       => /\ files' = files
          /\ dirExists' = dirExists
          /\ total_written' = total_written
          /\ total_bot' = total_bot
          /\ total_fetched' = total_fetched + cfg.per_page
          /\ pc' = "request"
          /\ page' = page + 1]_vars

\* a full page without an item of the bot was fetched and the next page was
\* requested after it
C17_Witness ==
    /\ StableInRun
    /\ \E i \in 1..(Len(requests) - 1) :
         /\ response_accepted(requests[i].resp)
         /\ Len(PageOf(remote, requests[i].page, cfg.per_page)) = cfg.per_page
         /\ NoneByBot(PageOf(remote, requests[i].page, cfg.per_page))
         /\ requests[i + 1].page = requests[i].page + 1
         /\ files = filesAtStart

\* C18: when the remote holds an exact multiple of pageSize items (zero
\* included) and no ceiling applies, a completed run has requested
\* total/pageSize + 1 pages, the last of them empty; an empty page ends the run
\* normally and leaves the fetched, matched and written counts and the store
\* unchanged.
C18_EmptyPageEnds ==
    /\ [](((/\ pc = "done"
            /\ cfg.max_pages.isNone
            /\ StableInRun
            /\ Len(remote) % cfg.per_page = 0)
           => /\ ReqPages = 1..((Len(remote) \div cfg.per_page) + 1)
              /\ page = (Len(remote) \div cfg.per_page) + 1
              /\ PageItems = <<>>
              /\ total_fetched = Len(remote)))
    /\ [][(FetchedPage /\ PageItems = <<>>)
          => /\ pc' = "done"
             /\ files' = files
             /\ dirExists' = dirExists
             /\ total_fetched' = total_fetched
             /\ total_bot' = total_bot
             /\ total_written' = total_written]_vars

\* a completed run over two full pages of one item: three pages requested, the
\* third empty, both items fetched
C18_Witness ==
    /\ pc = "done"
    /\ cfg.max_pages.isNone
    /\ StableInRun
    /\ Len(remote) = 2
    /\ cfg.per_page = 1
    /\ ReqPages = {1, 2, 3}
    /\ PageItems = <<>>
    /\ total_fetched = 2
    /\ total_written = 2

\* the time of the request that follows request i: the next one logged, or the
\* clock while the retry is still to be sent
RetryTime(i) == IF i < Len(requests) THEN requests[i + 1].at ELSE now

\* C20: when a page request is answered with the rate-limit signal carrying
\* reset time R, the wait is max(0, R - now) + 5 seconds: the retry is sent no
\* earlier than R + 5 when R is in the future and no earlier than now + 5 when R
\* is past, and the retry is the next request the run makes.
C20_RetryAfterReset ==
    \A i \in 1..Len(requests) :
        LET r == requests[i]
            R == r.resp.reset.value
        IN  (r.attempt = 1 /\ IsRateLimitSignal(r.resp))
                => /\ RetryTime(i) - r.at = Max(0, R - r.at) + SleepMargin
                   /\ R > r.at => RetryTime(i) >= R + 5
                   /\ R <= r.at => RetryTime(i) >= r.at + 5
                   /\ IF i < Len(requests)
                      THEN /\ requests[i + 1].page = r.page
                           /\ requests[i + 1].attempt = 2
                      ELSE pc = "retry" /\ page = r.page

\* a retry sent after a reset time in the future and a retry sent after a reset
\* time in the past
C20_Witness ==
    \E i, j \in 1..(Len(requests) - 1) :
        /\ requests[i].attempt = 1 /\ requests[j].attempt = 1
        /\ IsRateLimitSignal(requests[i].resp)
        /\ IsRateLimitSignal(requests[j].resp)
        /\ requests[i].resp.reset.value > requests[i].at
        /\ requests[i + 1].at = requests[i].resp.reset.value + 5
        /\ requests[j].resp.reset.value < requests[j].at
        /\ requests[j + 1].at = requests[j].at + 5

-----------------------------------------------------------------------------
(* Properties of the Aggregator (SpecAgg) *)

\* main has returned or an exception has left it
AggEnded == apc \in {"done", "error"}

\* C15: when one of the two year counts (opened, closed) is empty and the other
\* has data, the chart of the one that has data is produced, whichever of the
\* two is the empty one.
C15_Independent ==
    AggEnded
        => /\ (DOMAIN counts.closed = {} /\ DOMAIN counts.opened # {})
                => plots.open
           /\ (DOMAIN counts.opened = {} /\ DOMAIN counts.closed # {})
                => plots.closed

\* C16: when a requested year count is empty, the run reports an error outcome:
\* it does not return the success outcome with the chart left out.
C16_EmptyFailsLoudly ==
    apc = "done"
        => /\ DOMAIN counts.opened # {}
           /\ DOMAIN counts.closed # {}

-----------------------------------------------------------------------------
(* Accounting of the files of a Normalizer run (SpecNorm) *)

\* the file passes the three gates
PassesGates(raw) ==
    /\ raw.json = "object"
    /\ raw.issueIsDict
    /\ raw.issue.body.isStr
    /\ raw.issue.body.hasMarker
    /\ raw.issue.numIsInt
    /\ raw.issue.createdIsStr

\* the files of a directory that yield a Submission, that the parser rejects,
\* and that a gate excludes
EmittedOf(fs) == {p \in DOMAIN fs : PassesGates(fs[p]) /\ fs[p].issue.body.parseable}
FailedOf(fs) == {p \in DOMAIN fs : PassesGates(fs[p]) /\ ~fs[p].issue.body.parseable}
SkippedOf(fs) == {p \in DOMAIN fs : ~PassesGates(fs[p])}

\* C21: in a Normalizer run that completes, emitted + skipped + failed equals
\* the number of files enumerated, every file counts for exactly one of the
\* three, and the output holds one record for each emitted file and none for a
\* skipped or failed one.
C21_Accounted ==
    \A i \in DOMAIN hist :
        LET h == hist[i]
            subs == h.after.submissions
        IN  h.outcome = "ok"
                => /\ Len(subs) + h.after.skipped + h.after.failed
                        = Cardinality(DOMAIN h.input)
                   /\ Len(subs) = Cardinality(EmittedOf(h.input))
                   /\ h.after.skipped = Cardinality(SkippedOf(h.input))
                   /\ h.after.failed = Cardinality(FailedOf(h.input))
                   /\ {subs[k].issueNumber : k \in DOMAIN subs}
                        = {h.input[p].issue.number : p \in EmittedOf(h.input)}
                   /\ Len(h.acc.log) = Cardinality(DOMAIN h.input)
                   /\ \A p \in DOMAIN h.input :
                        Cardinality({k \in DOMAIN h.acc.log :
                                       h.acc.log[k].name = p}) = 1

\* a completed run over three files: one emitted, one skipped, one failed
C21_Witness ==
    \E i \in DOMAIN hist :
        /\ hist[i].outcome = "ok"
        /\ Cardinality(DOMAIN hist[i].input) = 3
        /\ Len(hist[i].after.submissions) = 1
        /\ hist[i].after.skipped = 1
        /\ hist[i].after.failed = 1
        /\ Cardinality(FailedOf(hist[i].input)) = 1

-----------------------------------------------------------------------------
(* Properties of a Collector run after a failed one (Spec) *)

\* the file names of the issues of the remote that the Collector stores: those
\* among the first n items authored by the configured bot with an integer number
StorableAmong(n) ==
    {out_path(remote[i].number) :
        i \in {j \in 1..Min(n, Len(remote)) :
                 AuthoredBy(remote[j], cfg.bot) /\ remote[j].numIsInt}}

\* the run ended in a fatal transport error on the page it was at; the files
\* of the pages before it are on disk, and the files it did not write are as
\* they were when it started
FailedRunKeepsFiles ==
    (pc = "api_error" /\ StableInRun)
        => /\ StorableAmong((page - 1) * cfg.per_page) \subseteq DOMAIN files
           /\ written \subseteq DOMAIN files
           /\ \A p \in DOMAIN filesAtStart \ written :
                p \in DOMAIN files /\ files[p] = filesAtStart[p]

\* the run follows a failed one over the same remote and completed without
\* error with overwrite=false
RerunCompleted ==
    /\ pc = "done"
    /\ prevPc = "api_error"
    /\ ~cfg.overwrite
    /\ StableSincePrevRun

\* the run wrote the files that were missing when it started, and no other
WroteOnlyMissing(needed) ==
    /\ written = needed \ DOMAIN filesAtStart
    /\ total_written = Cardinality(written)
    /\ \A p \in DOMAIN filesAtStart : p \in DOMAIN files /\ files[p] = filesAtStart[p]

\* C22: a run that ends in a fatal transport error on page k leaves the files
\* written for the pages before k on disk; a later run with overwrite=false
\* over the same remote that completes without error leaves one file for every
\* issue of the remote authored by the bot with an integer number, and writes
\* only the files that were missing. (Stated for a later run whose page ceiling,
\* if it has one, is at least 1.)
C22_RerunCompletes ==
    /\ FailedRunKeepsFiles
    /\ (RerunCompleted /\ cfg.max_pages # Some(0))
        => /\ StorableAmong(Len(remote)) \subseteq DOMAIN files
           /\ WroteOnlyMissing(StorableAmong(Len(remote)))

\* C22 amended: as C22, for the issues on the pages the later run fetched,
\* which are all the issues of the remote when the later run has no page
\* ceiling.
C22_RerunCompletesFetched ==
    /\ FailedRunKeepsFiles
    /\ RerunCompleted
        => /\ StorableAmong(total_fetched) \subseteq DOMAIN files
           /\ WroteOnlyMissing(StorableAmong(total_fetched))
           /\ cfg.max_pages.isNone => total_fetched = Len(remote)

\* a run without ceiling completed after a run that had written the first page
\* and failed on the second: it wrote the file that was missing and no other
C22_Witness ==
    /\ RerunCompleted
    /\ cfg.max_pages.isNone
    /\ filesAtStart # NoFiles
    /\ written # {}
    /\ DOMAIN files = StorableAmong(Len(remote))
    /\ Cardinality(DOMAIN files) = 2

====
